---- MODULE Spec2Model ----
(***************************************************************************)
(* The BVH manager (src/src/utils/bvhManager.ts) and the registration hook *)
(* (useBVHRegistration) of wawa-game-2.5, as a state machine.              *)
(*                                                                         *)
(* Geometry is modelled in the vertical plane: a point is [x, y] with      *)
(* integer coordinates, a mesh's geometry is a set of upward-facing tiles  *)
(* in mesh-local space, and a world matrix is a translation along y, kept  *)
(* as the integer it translates by (the identity is 0, the inverse of t is *)
(* -t).  JavaScript runs every handler to completion, so each call of the  *)
(* manager's API and each effect or timer callback is one action.          *)
(***************************************************************************)
EXTENDS Integers, Sequences, FiniteSets, TLC

\* ------------------------------------------------------------------ bounds
\* Largest translation a mesh is moved to.
MaxT == 2
\* Largest height of a ray origin, a sphere centre or a queried position.
MaxY == 3

\* ------------------------------------------------------- program constants
\* raycast/sphereCast: maxDistance = Infinity (larger than any distance here).
Infinity == 1000
\* getGroundHeight: maxDistance = 100.
DefaultGroundMaxDistance == 100
\* isOnGround: maxDistance = 2.
DefaultOnGroundMaxDistance == 2
\* isOnGround: threshold = 0.1, in tenths of a unit.
DefaultThresholdTenths == 1
\* setInterval(..., 100).
UpdateIntervalMs == 100
\* Map20, Map21: window.setTimeout(() => setPhysicsReady(true), 150).
PhysicsDelayMs == 150

\* ------------------------------------------------------------------ values
Abs(n) == IF n < 0 THEN -n ELSE n
Sgn(n) == IF n < 0 THEN -1 ELSE IF n > 0 THEN 1 ELSE 0

\* null
Null == [kind |-> "null"]
\* a number returned where null may be returned too
Num(n) == [kind |-> "number", value |-> n]

Vec(x, y) == [x |-> x, y |-> y]
Down == Vec(0, -1)
Up == Vec(0, 1)

\* The meshes of the world.  "bare" has no geometry; MeshBVH's constructor
\* throws for "broken"; updateMatrixWorld throws for "faulty" (after it has
\* updated the mesh's own matrixWorld, when it reaches a broken descendant).
Meshes == {"terrain", "platform", "bare", "broken", "faulty"}
HasGeometry(m) == m # "bare"
ConstructorThrows(m) == m = "broken"
MatrixUpdateThrows(m) == m = "faulty"
\* The meshes whose transform changes while the program runs.
Movable == {"platform"}
\* mesh.position at construction.
InitialPosition(m) == IF m = "faulty" THEN 1 ELSE 0
\* mesh.geometry: upward-facing tiles, in mesh-local coordinates.
Geometry(m) ==
  CASE m = "terrain" -> {Vec(0, 0), Vec(1, 0)}
    [] m = "platform" -> {Vec(0, 0)}
    [] m = "broken" -> {Vec(0, 0)}
    [] m = "faulty" -> {Vec(1, 0)}
    [] OTHER -> {}

\* THREE.Matrix4, a translation along y.
IdentityMatrix == 0
invert(t) == 0 - t
\* Vector3.applyMatrix4
applyMatrix4(p, t) == Vec(p.x, p.y + t)
\* Vector3.distanceTo (the floor of the root; exact on axis-aligned pairs,
\* the only ones that occur)
distanceTo(p, q) ==
  LET s == (p.x - q.x) * (p.x - q.x) + (p.y - q.y) * (p.y - q.y)
  IN CHOOSE d \in 0..(Abs(p.x - q.x) + Abs(p.y - q.y)) :
       d * d <= s /\ (d + 1) * (d + 1) > s
\* Vector3.normalize: a zero vector stays zero (length() || 1)
normalize(v) ==
  IF v.x = 0 THEN Vec(0, Sgn(v.y))
  ELSE IF v.y = 0 THEN Vec(Sgn(v.x), 0)
  ELSE v
multiplyScalar(v, k) == Vec(v.x * k, v.y * k)
\* Ray.applyMatrix4: the origin as a point, the direction by transformDirection,
\* which a translation leaves alone
rayApplyMatrix4(ray, t) ==
  [origin |-> applyMatrix4(ray.origin, t), direction |-> ray.direction]

\* MeshBVH.raycastFirst(ray, FrontSide) over tiles facing up: the first tile
\* a downward ray meets in its column; a ray going up meets back faces only,
\* a horizontal or zero direction is parallel to every tile.
raycastFirst(bvh, ray) ==
  LET below == {f \in bvh : f.x = ray.origin.x /\ f.y <= ray.origin.y}
  IN IF ray.direction.x = 0 /\ ray.direction.y < 0 /\ below # {}
     THEN [kind |-> "hit",
           point |-> CHOOSE f \in below : \A g \in below : g.y <= f.y]
     ELSE Null

\* MeshBVH.intersectsBox(box, identity)
intersectsBox(bvh, box) ==
  \E f \in bvh :
    /\ box.min.x <= f.x /\ f.x <= box.max.x
    /\ box.min.y <= f.y /\ f.y <= box.max.y

\* ------------------------------------------------------------------- state
VARIABLES
  bvhMeshes,    \* BVHManager.bvhMeshes: the entries, in insertion order
  position,     \* mesh.position (its translation), per mesh
  matrixWorld,  \* mesh.matrixWorld, per mesh
  hooks,        \* per useBVHRegistration instance: its props as of its last
                \* effect, registeredRef.current and the periods (ms) of the
                \* intervals it has set and not cleared
  last,         \* the call of the manager's API made by the last step
  map           \* the Map20 / Map21 component: its state, refs and memo

vars == <<bvhMeshes, position, matrixWorld, hooks, last, map>>

NoCall == [op |-> "none"]
QueryOps == {"raycast", "sphereCast", "getGroundHeight", "isOnGround"}
\* A query changes nothing but `last`: made right after another query it is
\* the same step as made in its place, and only that one is generated.
QueryTurn == last.op \notin QueryOps

\* Map.has / Map.get / Map.delete / Map.set of a new key
keys(reg) == {reg[i].mesh : i \in 1..Len(reg)}
has(reg, m) == m \in keys(reg)
get(reg, m) == reg[CHOOSE i \in 1..Len(reg) : reg[i].mesh = m]
delete(reg, m) == SelectSeq(reg, LAMBDA e : e.mesh # m)

\* Object3D.updateMatrixWorld(true): matrixWorld from the mesh's transform
updateMatrixWorld(mw, pos, m) == [mw EXCEPT ![m] = pos[m]]

\* ------------------------------------------------------------ buildBVH
\* The try block of buildBVH: the registry and the matrices it leaves, whether
\* new MeshBVH(...) returned an object and whether a statement threw.  An
\* entry is { mesh, bvh, invMatrixWorld }; invComputed and returned record
\* what has happened to it: whether invMatrixWorld was computed from the
\* mesh's matrixWorld, and whether the call that stored it returned it.
buildBVHTry(reg, mw, pos, m) ==
  IF ConstructorThrows(m)
  THEN [reg |-> reg, mw |-> mw, threw |-> TRUE, constructed |-> FALSE,
        mesh |-> m]
  ELSE
    LET entry == [mesh |-> m, bvh |-> Geometry(m),
                  invMatrixWorld |-> IdentityMatrix,
                  invComputed |-> FALSE, returned |-> FALSE]
        stored == Append(reg, entry)
        mw1 == updateMatrixWorld(mw, pos, m)
    IN IF MatrixUpdateThrows(m)
       THEN [reg |-> stored, mw |-> mw1, threw |-> TRUE,
             constructed |-> TRUE, mesh |-> m]
       ELSE [reg |-> [stored EXCEPT ![Len(stored)] =
                        [entry EXCEPT !.invMatrixWorld = invert(mw1[m]),
                                      !.invComputed = TRUE,
                                      !.returned = TRUE]],
             mw |-> mw1, threw |-> FALSE, constructed |-> TRUE, mesh |-> m]

\* buildBVH without the catch block: what the try block throws leaves the call.
buildBVHRethrows(t) ==
  [reg |-> t.reg, mw |-> t.mw, constructed |-> t.constructed,
   outcome |-> IF t.threw THEN "threw" ELSE "returned",
   result |-> IF t.threw THEN Null ELSE get(t.reg, t.mesh)]

\* catch (error) { console.error(...); return null; }
buildBVHCatch(t) ==
  [reg |-> t.reg, mw |-> t.mw, constructed |-> t.constructed,
   outcome |-> "returned",
   result |-> IF t.threw THEN Null ELSE get(t.reg, t.mesh)]

\* buildBVH without the "skip if already has BVH" test.
buildBVHAlwaysBuilds(reg, mw, pos, m) ==
  IF ~HasGeometry(m)
  THEN [reg |-> reg, mw |-> mw, constructed |-> FALSE,
        outcome |-> "returned", result |-> Null]
  ELSE buildBVHCatch(buildBVHTry(reg, mw, pos, m))

buildBVH(reg, mw, pos, m) ==
  IF ~HasGeometry(m)
  THEN [reg |-> reg, mw |-> mw, constructed |-> FALSE,
        outcome |-> "returned", result |-> Null]
  ELSE IF has(reg, m)
  THEN [reg |-> reg, mw |-> mw, constructed |-> FALSE,
        outcome |-> "returned", result |-> get(reg, m)]
  ELSE buildBVHCatch(buildBVHTry(reg, mw, pos, m))

\* ------------------------------------------------------------ removeBVH, clear
\* removeBVH that leaves the entry in place.
removeBVHKeeps(reg, m) == reg
removeBVH(reg, m) == delete(reg, m)
\* clear that leaves the oldest entry in the registry.
clearKeepsFirst(reg) == IF reg = <<>> THEN reg ELSE <<reg[1]>>
clear(reg) == <<>>
getAllBVHMeshes(reg) == reg

\* ------------------------------------------------------------ updateMatrices
\* bvhMeshes.forEach: entry i and the ones after it; an exception of
\* updateMatrixWorld ends the loop and leaves the call.
RECURSIVE updateMatricesFrom(_, _, _, _)
updateMatricesFrom(reg, mw, pos, i) ==
  IF i > Len(reg)
  THEN [reg |-> reg, mw |-> mw, outcome |-> "returned"]
  ELSE
    LET m == reg[i].mesh
        mw1 == updateMatrixWorld(mw, pos, m)
    IN IF MatrixUpdateThrows(m)
       THEN [reg |-> reg, mw |-> mw1, outcome |-> "threw"]
       ELSE updateMatricesFrom(
              [reg EXCEPT ![i].invMatrixWorld = invert(mw1[m]),
                          ![i].invComputed = TRUE],
              mw1, pos, i + 1)

updateMatrices(reg, mw, pos) == updateMatricesFrom(reg, mw, pos, 1)

\* ------------------------------------------------------------ raycast
\* What the loop body of raycast finds for one entry: the hit in world space.
entryRayHit(e, mw, ray) ==
  LET localRay == rayApplyMatrix4(ray, e.invMatrixWorld)
      hit == raycastFirst(e.bvh, localRay)
  IN IF hit = Null THEN Null
     ELSE LET worldPoint == applyMatrix4(hit.point, mw[e.mesh])
          IN [kind |-> "hit", distance |-> distanceTo(ray.origin, worldPoint),
              point |-> worldPoint, object |-> e.mesh]

\* raycast's loop with closestDistance left at maxDistance when a hit is kept.
RECURSIVE raycastFromKeepsLimit(_, _, _, _, _, _, _)
raycastFromKeepsLimit(reg, mw, ray, i, closestHit, closestDistance, scanned) ==
  IF i > Len(reg) THEN [hit |-> closestHit, scanned |-> scanned]
  ELSE
    LET h == entryRayHit(reg[i], mw, ray)
        seen == Append(scanned, reg[i].mesh)
    IN IF h # Null /\ h.distance < closestDistance
       THEN raycastFromKeepsLimit(reg, mw, ray, i + 1, h, closestDistance, seen)
       ELSE raycastFromKeepsLimit(reg, mw, ray, i + 1, closestHit,
                                  closestDistance, seen)

\* bvhMeshes.forEach of raycast, from entry i, with closestHit and
\* closestDistance as they stand; `scanned` lists the meshes of the entries
\* the loop has visited.
RECURSIVE raycastFrom(_, _, _, _, _, _, _)
raycastFrom(reg, mw, ray, i, closestHit, closestDistance, scanned) ==
  IF i > Len(reg) THEN [hit |-> closestHit, scanned |-> scanned]
  ELSE
    LET h == entryRayHit(reg[i], mw, ray)
        seen == Append(scanned, reg[i].mesh)
    IN IF h # Null /\ h.distance < closestDistance
       THEN raycastFrom(reg, mw, ray, i + 1, h, h.distance, seen)
       ELSE raycastFrom(reg, mw, ray, i + 1, closestHit, closestDistance, seen)

raycastScan(reg, mw, ray, maxDistance) ==
  raycastFrom(reg, mw, ray, 1, Null, maxDistance, <<>>)

raycast(reg, mw, ray, maxDistance) == raycastScan(reg, mw, ray, maxDistance).hit

\* ------------------------------------------------------------ sphereCast
\* The loop body of sphereCast once the direction is in mesh-local space and
\* scaled to maxDistance: the box of the swept sphere, the box test, the ray
\* from the centre and the hit in world space.
entrySphereHitAlong(e, mw, sphere, localDirection) ==
  LET center == applyMatrix4(sphere.center, e.invMatrixWorld)
      r == sphere.radius
      endPoint == Vec(center.x + localDirection.x, center.y + localDirection.y)
      lo(a, b) == IF a < b THEN a ELSE b
      hi(a, b) == IF a > b THEN a ELSE b
      box == [min |-> Vec(lo(center.x - r, endPoint.x), lo(center.y - r, endPoint.y)),
              max |-> Vec(hi(center.x + r, endPoint.x), hi(center.y + r, endPoint.y))]
      hit == IF intersectsBox(e.bvh, box)
             THEN raycastFirst(e.bvh,
                               [origin |-> center, direction |-> localDirection])
             ELSE Null
  IN IF hit = Null THEN Null
     ELSE LET worldPoint == applyMatrix4(hit.point, mw[e.mesh])
          IN [kind |-> "hit", distance |-> distanceTo(sphere.center, worldPoint),
              point |-> worldPoint, object |-> e.mesh]

\* What the loop body of sphereCast finds for one entry: the direction is
\* brought to local space by direction.clone().applyMatrix4(inv), as a point
\* is, then normalized and scaled in place by multiplyScalar(maxDistance).
entrySphereHit(e, mw, sphere, direction, maxDistance) ==
  entrySphereHitAlong(e, mw, sphere,
    multiplyScalar(normalize(applyMatrix4(direction, e.invMatrixWorld)),
                   maxDistance))

\* bvhMeshes.forEach of sphereCast, from entry i; q is the query
\* [sphere, direction, maxDistance].
RECURSIVE sphereCastFrom(_, _, _, _, _, _, _)
sphereCastFrom(reg, mw, q, i, closestHit, closestDistance, scanned) ==
  IF i > Len(reg) THEN [hit |-> closestHit, scanned |-> scanned]
  ELSE
    LET h == entrySphereHit(reg[i], mw, q.sphere, q.direction, q.maxDistance)
        seen == Append(scanned, reg[i].mesh)
    IN IF h # Null /\ h.distance < closestDistance
       THEN sphereCastFrom(reg, mw, q, i + 1, h, h.distance, seen)
       ELSE sphereCastFrom(reg, mw, q, i + 1, closestHit, closestDistance, seen)

sphereCastScan(reg, mw, sphere, direction, maxDistance) ==
  sphereCastFrom(reg, mw,
                 [sphere |-> sphere, direction |-> direction,
                  maxDistance |-> maxDistance],
                 1, Null, maxDistance, <<>>)

sphereCast(reg, mw, sphere, direction, maxDistance) ==
  sphereCastScan(reg, mw, sphere, direction, maxDistance).hit

\* ------------------------------------------------------------ ground queries
groundRay(x, maxDistance) == [origin |-> Vec(x, maxDistance), direction |-> Down]

\* getGroundHeight returning the hit's distance in place of its height.
getGroundHeightScanDistance(reg, mw, x, maxDistance) ==
  LET r == raycastScan(reg, mw, groundRay(x, maxDistance), maxDistance * 2)
  IN [value |-> IF r.hit # Null THEN Num(r.hit.distance) ELSE Null,
      hit |-> r.hit, scanned |-> r.scanned]

getGroundHeightScan(reg, mw, x, maxDistance) ==
  LET r == raycastScan(reg, mw, groundRay(x, maxDistance), maxDistance * 2)
  IN [value |-> IF r.hit # Null THEN Num(r.hit.point.y) ELSE Null,
      hit |-> r.hit, scanned |-> r.scanned]

getGroundHeight(reg, mw, x, maxDistance) ==
  getGroundHeightScan(reg, mw, x, maxDistance).value

\* isOnGround without the null test: Math.abs(position.y - null) is |y|.
isOnGroundNoNullTest(reg, mw, pos, thresholdTenths, maxDistance) ==
  LET groundHeight == getGroundHeight(reg, mw, pos.x, maxDistance)
  IN IF groundHeight = Null THEN 10 * Abs(pos.y) < thresholdTenths
     ELSE 10 * Abs(pos.y - groundHeight.value) < thresholdTenths

\* threshold in tenths of a unit
isOnGround(reg, mw, pos, thresholdTenths, maxDistance) ==
  LET groundHeight == getGroundHeight(reg, mw, pos.x, maxDistance)
  IN IF groundHeight = Null THEN FALSE
     ELSE 10 * Abs(pos.y - groundHeight.value) < thresholdTenths

\* ------------------------------------------------------------ useBVHRegistration
\* The instances of the hook, and what a meshes list holds where it holds no
\* mesh (null, undefined: a ref not yet attached).
Hooks == {"map", "single"}
NoMesh == "null"
Unmounted ==
  [mounted |-> FALSE, enabled |-> FALSE, meshes |-> <<>>, registered |-> {},
   intervals |-> <<>>]

\* meshes.forEach of the effect, from element i; `calls` lists the meshes
\* buildBVH is called with.
RECURSIVE registerFrom(_, _, _, _, _, _)
registerFrom(reg, mw, pos, registered, meshes, i) ==
  IF i > Len(meshes)
  THEN [reg |-> reg, mw |-> mw, registered |-> registered, calls |-> <<>>]
  ELSE
    LET mesh == meshes[i]
    IN IF mesh # NoMesh /\ mesh \in Meshes /\ mesh \notin registered
       THEN LET b == buildBVH(reg, mw, pos, mesh)
                r == registerFrom(b.reg, b.mw, pos,
                                  IF b.result # Null THEN registered \cup {mesh}
                                  ELSE registered,
                                  meshes, i + 1)
            IN [r EXCEPT !.calls = <<mesh>> \o r.calls]
       ELSE registerFrom(reg, mw, pos, registered, meshes, i + 1)

\* The effect of hook state h run with the props (meshes, enabled).
effect(reg, mw, pos, h, meshes, enabled) ==
  IF ~enabled
  THEN [reg |-> reg, mw |-> mw, calls |-> <<>>,
        hook |-> [h EXCEPT !.mounted = TRUE, !.enabled = FALSE,
                           !.meshes = meshes]]
  ELSE
    LET r == registerFrom(reg, mw, pos, h.registered, meshes, 1)
    IN [reg |-> r.reg, mw |-> r.mw, calls |-> r.calls,
        hook |-> [mounted |-> TRUE, enabled |-> TRUE, meshes |-> meshes,
                  registered |-> r.registered,
                  intervals |-> Append(h.intervals, UpdateIntervalMs)]]

\* The cleanup without clearInterval(interval).
cleanupLeavesInterval(reg, h) ==
  IF ~(h.mounted /\ h.enabled) THEN [reg |-> reg, hook |-> h]
  ELSE
    LET listed == {h.meshes[i] : i \in 1..Len(h.meshes)}
        dropped == {m \in h.registered : m \notin listed}
    IN [reg |-> SelectSeq(reg, LAMBDA e : e.mesh \notin dropped),
        hook |-> [h EXCEPT !.registered = h.registered \ dropped]]

\* The cleanup the last effect of h returned (none when it ran disabled).
cleanup(reg, h) ==
  IF ~(h.mounted /\ h.enabled) THEN [reg |-> reg, hook |-> h]
  ELSE
    LET listed == {h.meshes[i] : i \in 1..Len(h.meshes)}
        dropped == {m \in h.registered : m \notin listed}
    IN [reg |-> SelectSeq(reg, LAMBDA e : e.mesh \notin dropped),
        hook |-> [h EXCEPT !.intervals = SubSeq(h.intervals, 1,
                                                Len(h.intervals) - 1),
                           !.registered = h.registered \ dropped]]

\* ------------------------------------------------------------ Map20, Map21
MapKinds == {"Map20", "Map21"}
\* The meshes of the city buildings Map20 renders (none in Map21); no ref is
\* given to their <mesh> elements.
CityBuildings(kind) ==
  IF kind = "Map20" THEN {"building0", "building1"} ELSE {}
\* The component before it mounts: useState(false), useRef(null),
\* useRef([]), no timeout, no effect waiting to run.
NoMap ==
  [mounted |-> FALSE, kind |-> "none", physicsReady |-> FALSE,
   timeouts |-> <<>>, terrainMeshRef |-> NoMesh, buildingMeshRef |-> NoMesh,
   staticMeshRefs |-> <<>>, staticMeshes |-> <<>>, effectsPending |-> FALSE]

\* The useMemo callback that collects nothing.
collectNoMeshes(m) == <<>>

\* The useMemo callback of staticMeshes, on the refs as they are.
collectStaticMeshes(m) ==
  (IF m.terrainMeshRef # NoMesh THEN <<m.terrainMeshRef>> ELSE <<>>)
    \o (IF m.kind = "Map20" /\ m.buildingMeshRef # NoMesh
        THEN <<m.buildingMeshRef>> ELSE <<>>)
    \o SelectSeq(m.staticMeshRefs, LAMBDA ref : ref # NoMesh)

\* ------------------------------------------------------------------ inputs
Columns == {0, 1}
Heights == 0..MaxY
Translations == 0..MaxT
Rays == [origin : {Vec(x, y) : x \in Columns, y \in Heights},
         direction : {Down, Up}]
MaxDistances == {1, 2, Infinity}
Spheres == [center : {Vec(x, y) : x \in Columns, y \in Heights}, radius : {1}]
SphereDirections == {Down, Up}
SphereMaxDistances == {1, 2}
GroundMaxDistances == {1, 2, DefaultGroundMaxDistance}
Thresholds == {DefaultThresholdTenths, 15}
OnGroundMaxDistances == {1, DefaultOnGroundMaxDistance}
\* The translations a mesh is moved to while the hooks are followed.
HookTranslations == {0, 1}
\* The lists a hook is rendered with.
MeshLists == {<<>>, <<"terrain">>, <<"terrain", "platform">>,
              <<NoMesh, "faulty">>}

\* The lists useBVHSingleMesh passes on: [mesh], the mesh not yet there or there.
SingleMeshLists == {<<NoMesh>>, <<"terrain">>}
\* The meshes other code removes from the registry.
RemovedElsewhere == {"terrain", "platform"}

\* ------------------------------------------------------------------- steps
Init ==
  /\ bvhMeshes = <<>>
  /\ position = [m \in Meshes |-> InitialPosition(m)]
  /\ matrixWorld = [m \in Meshes |-> IdentityMatrix]
  /\ hooks = [h \in Hooks |-> Unmounted]
  /\ last = NoCall
  /\ map = NoMap

\* A mesh is given another transform (its position prop changes).
MoveMesh(m, t) ==
  /\ position[m] # t
  /\ position' = [position EXCEPT ![m] = t]
  /\ last' = NoCall
  /\ UNCHANGED <<bvhMeshes, matrixWorld, hooks, map>>

\* The renderer draws a frame: scene.updateMatrixWorld() brings every mesh's
\* matrixWorld up to date (a mesh whose update throws is not in the scene).
RenderFrame ==
  /\ matrixWorld' = [m \in Meshes |->
                       IF MatrixUpdateThrows(m) THEN matrixWorld[m]
                       ELSE position[m]]
  /\ matrixWorld' # matrixWorld
  /\ last' = NoCall
  /\ UNCHANGED <<bvhMeshes, position, hooks, map>>

CallBuildBVH(m) ==
  LET r == buildBVH(bvhMeshes, matrixWorld, position, m)
  IN /\ bvhMeshes' = r.reg
     /\ matrixWorld' = r.mw
     /\ last' = [op |-> "buildBVH", mesh |-> m, hadEntry |-> has(bvhMeshes, m),
                 regBefore |-> bvhMeshes, constructed |-> r.constructed,
                 outcome |-> r.outcome, result |-> r.result]
     /\ UNCHANGED <<position, hooks, map>>

CallRemoveBVH(m) ==
  /\ bvhMeshes' = removeBVH(bvhMeshes, m)
  /\ last' = [op |-> "removeBVH", mesh |-> m, regBefore |-> bvhMeshes]
  /\ UNCHANGED <<position, matrixWorld, hooks, map>>

CallClear ==
  /\ bvhMeshes' = clear(bvhMeshes)
  /\ last' = [op |-> "clear", regBefore |-> bvhMeshes]
  /\ UNCHANGED <<position, matrixWorld, hooks, map>>

CallUpdateMatrices ==
  LET r == updateMatrices(bvhMeshes, matrixWorld, position)
  IN /\ bvhMeshes' = r.reg
     /\ matrixWorld' = r.mw
     /\ last' = [op |-> "updateMatrices", outcome |-> r.outcome]
     /\ UNCHANGED <<position, hooks, map>>

CallRaycast(ray, maxDistance) ==
  LET r == raycastScan(bvhMeshes, matrixWorld, ray, maxDistance)
  IN /\ QueryTurn
     /\ last' = [op |-> "raycast", ray |-> ray, maxDistance |-> maxDistance,
                 result |-> r.hit, hit |-> r.hit, scanned |-> r.scanned]
     /\ UNCHANGED <<bvhMeshes, position, matrixWorld, hooks, map>>

CallSphereCast(sphere, direction, maxDistance) ==
  LET r == sphereCastScan(bvhMeshes, matrixWorld, sphere, direction, maxDistance)
  IN /\ QueryTurn
     /\ last' = [op |-> "sphereCast", sphere |-> sphere,
                 direction |-> direction, maxDistance |-> maxDistance,
                 result |-> r.hit, hit |-> r.hit, scanned |-> r.scanned]
     /\ UNCHANGED <<bvhMeshes, position, matrixWorld, hooks, map>>

CallGetGroundHeight(x, maxDistance) ==
  LET r == getGroundHeightScan(bvhMeshes, matrixWorld, x, maxDistance)
  IN /\ QueryTurn
     /\ last' = [op |-> "getGroundHeight", x |-> x, maxDistance |-> maxDistance,
                 result |-> r.value, hit |-> r.hit, scanned |-> r.scanned]
     /\ UNCHANGED <<bvhMeshes, position, matrixWorld, hooks, map>>

CallIsOnGround(pos, thresholdTenths, maxDistance) ==
  LET r == getGroundHeightScan(bvhMeshes, matrixWorld, pos.x, maxDistance)
  IN /\ QueryTurn
     /\ last' = [op |-> "isOnGround", position |-> pos,
                 threshold |-> thresholdTenths, maxDistance |-> maxDistance,
                 result |-> isOnGround(bvhMeshes, matrixWorld, pos,
                                       thresholdTenths, maxDistance),
                 groundHeight |-> r.value, hit |-> r.hit, scanned |-> r.scanned]
     /\ UNCHANGED <<bvhMeshes, position, matrixWorld, hooks, map>>

\* A component using the hook mounts: a new registeredRef, then the effect.
HookMount(h, meshes, enabled) ==
  LET r == effect(bvhMeshes, matrixWorld, position, Unmounted, meshes, enabled)
  IN /\ ~hooks[h].mounted
     /\ bvhMeshes' = r.reg
     /\ matrixWorld' = r.mw
     /\ hooks' = [hooks EXCEPT ![h] = r.hook]
     /\ last' = [op |-> "effect", hook |-> h, calls |-> r.calls]
     /\ UNCHANGED <<position, map>>

\* It renders again with other dependencies (another list, array or enabled):
\* the last effect's cleanup, then the effect.
HookRender(h, meshes, enabled) ==
  LET c == cleanup(bvhMeshes, hooks[h])
      r == effect(c.reg, matrixWorld, position, c.hook, meshes, enabled)
  IN /\ hooks[h].mounted
     /\ bvhMeshes' = r.reg
     /\ matrixWorld' = r.mw
     /\ hooks' = [hooks EXCEPT ![h] = r.hook]
     /\ last' = [op |-> "effect", hook |-> h, calls |-> r.calls]
     /\ UNCHANGED <<position, map>>

\* It unmounts: the last effect's cleanup.
HookUnmount(h) ==
  LET c == cleanup(bvhMeshes, hooks[h])
  IN /\ hooks[h].mounted
     /\ bvhMeshes' = c.reg
     /\ hooks' = [hooks EXCEPT ![h] = [c.hook EXCEPT !.mounted = FALSE,
                                                     !.enabled = FALSE,
                                                     !.meshes = <<>>]]
     /\ last' = [op |-> "cleanup", hook |-> h]
     /\ UNCHANGED <<position, matrixWorld, map>>

\* An interval of h comes due: () => bvhManager.updateMatrices().
TimerTick(h) ==
  LET r == updateMatrices(bvhMeshes, matrixWorld, position)
  IN /\ hooks[h].intervals # <<>>
     /\ bvhMeshes' = r.reg
     /\ matrixWorld' = r.mw
     /\ last' = [op |-> "updateMatrices", outcome |-> r.outcome, timer |-> h]
     /\ UNCHANGED <<position, hooks, map>>

Next ==
  \/ \E m \in Movable, t \in Translations : MoveMesh(m, t)
  \/ RenderFrame
  \/ \E m \in Meshes : CallBuildBVH(m)
  \/ \E m \in Meshes : CallRemoveBVH(m)
  \/ CallClear
  \/ CallUpdateMatrices
  \/ \E ray \in Rays, d \in MaxDistances : CallRaycast(ray, d)
  \/ \E s \in Spheres, dir \in SphereDirections, d \in SphereMaxDistances :
       CallSphereCast(s, dir, d)
  \/ \E x \in Columns, d \in GroundMaxDistances : CallGetGroundHeight(x, d)
  \/ \E x \in Columns, y \in Heights, th \in Thresholds,
        d \in OnGroundMaxDistances : CallIsOnGround(Vec(x, y), th, d)

Spec == Init /\ [][Next]_vars

\* One instance of the hook, its timer, the renderer and the queries a frame
\* makes.
NextHooks ==
  \/ \E t \in HookTranslations : MoveMesh("platform", t)
  \/ RenderFrame
  \/ \E l \in MeshLists, en \in BOOLEAN : HookMount("map", l, en)
  \/ \E l \in MeshLists, en \in BOOLEAN : HookRender("map", l, en)
  \/ HookUnmount("map")
  \/ TimerTick("map")
  \/ \E x \in Columns : CallRaycast(groundRay(x, MaxY), Infinity)
  \/ \E x \in Columns :
       CallSphereCast([center |-> Vec(x, MaxY), radius |-> 1], Down, Infinity)
  \/ \E x \in Columns : CallGetGroundHeight(x, DefaultGroundMaxDistance)

SpecHooks == Init /\ [][NextHooks]_vars

\* The map mounts: the first render runs useMemo while every ref is still
\* empty; the commit attaches terrainMeshRef to the terrain <mesh> (no element
\* takes buildingMeshRef or fills staticMeshRefs); the effects wait.
MapMount(kind) ==
  /\ ~map.mounted
  /\ ~hooks["map"].mounted
  /\ map' = [NoMap EXCEPT !.mounted = TRUE, !.kind = kind,
                          !.staticMeshes = collectStaticMeshes(
                                             [NoMap EXCEPT !.kind = kind]),
                          !.terrainMeshRef = "terrain",
                          !.effectsPending = TRUE]
  /\ last' = [op |-> "render", physicsReady |-> FALSE]
  /\ UNCHANGED <<bvhMeshes, position, matrixWorld, hooks>>

\* The effects of the last commit run: useBVHRegistration(staticMeshes, true)
\* (its first effect, or the cleanup and the effect for the new list) and,
\* after the mount, the effect that sets the timeout of physicsReady.
MapFlushEffects ==
  LET first == ~hooks["map"].mounted
      c == cleanup(bvhMeshes, hooks["map"])
      r == IF first
           THEN effect(bvhMeshes, matrixWorld, position, Unmounted,
                       map.staticMeshes, TRUE)
           ELSE effect(c.reg, matrixWorld, position, c.hook,
                       map.staticMeshes, TRUE)
  IN /\ map.effectsPending
     /\ bvhMeshes' = r.reg
     /\ matrixWorld' = r.mw
     /\ hooks' = [hooks EXCEPT !["map"] = r.hook]
     /\ map' = [map EXCEPT !.effectsPending = FALSE,
                           !.timeouts = IF first THEN <<PhysicsDelayMs>>
                                        ELSE map.timeouts]
     /\ last' = [op |-> "effect", hook |-> "map", calls |-> r.calls]
     /\ UNCHANGED position

\* The timeout comes due: setPhysicsReady(true); the render that follows runs
\* useMemo again ([physicsReady] changed) and the hook's dependencies change.
PhysicsTimeout ==
  /\ map.timeouts # <<>>
  /\ map' = [map EXCEPT !.physicsReady = TRUE, !.timeouts = <<>>,
                        !.staticMeshes = collectStaticMeshes(map),
                        !.effectsPending = TRUE]
  /\ last' = [op |-> "render", physicsReady |-> TRUE]
  /\ UNCHANGED <<bvhMeshes, position, matrixWorld, hooks>>

\* The map unmounts (effects that wait run first): the hook's cleanup,
\* clearTimeout, the refs are detached.
MapUnmount ==
  LET c == cleanup(bvhMeshes, hooks["map"])
  IN /\ map.mounted
     /\ ~map.effectsPending
     /\ bvhMeshes' = c.reg
     /\ hooks' = [hooks EXCEPT !["map"] = [c.hook EXCEPT !.mounted = FALSE,
                                                         !.enabled = FALSE,
                                                         !.meshes = <<>>]]
     /\ map' = NoMap
     /\ last' = [op |-> "cleanup", hook |-> "map"]
     /\ UNCHANGED <<position, matrixWorld>>

\* A map component, its hook and timers, the renderer and a frame's queries.
NextMap ==
  \/ \E kind \in MapKinds : MapMount(kind)
  \/ MapFlushEffects
  \/ PhysicsTimeout
  \/ MapUnmount
  \/ TimerTick("map")
  \/ \E t \in HookTranslations : MoveMesh("terrain", t)
  \/ RenderFrame
  \/ \E x \in Columns : CallRaycast(groundRay(x, MaxY), Infinity)
  \/ \E x \in Columns : CallGetGroundHeight(x, DefaultGroundMaxDistance)

\* Effects that wait are run and a timeout that is set comes due.
SpecMap ==
  /\ Init /\ [][NextMap]_vars
  /\ WF_vars(MapFlushEffects) /\ WF_vars(PhysicsTimeout)

\* Two components on the one manager: a map using useBVHRegistration, another
\* using useBVHSingleMesh, their timers, and code elsewhere calling clear and
\* removeBVH.
NextShared ==
  \/ \E l \in MeshLists, en \in BOOLEAN : HookMount("map", l, en)
  \/ \E l \in MeshLists, en \in BOOLEAN : HookRender("map", l, en)
  \/ HookUnmount("map")
  \/ \E l \in SingleMeshLists, en \in BOOLEAN : HookMount("single", l, en)
  \/ \E l \in SingleMeshLists, en \in BOOLEAN : HookRender("single", l, en)
  \/ HookUnmount("single")
  \/ \E h \in Hooks : TimerTick(h)
  \/ \E m \in RemovedElsewhere : CallRemoveBVH(m)
  \/ CallClear

SpecShared == Init /\ [][NextShared]_vars

\* ------------------------------------------------------------------ claims
\* The hits the loop of raycast finds, entry by entry, for a ray.
RayHits(ray) ==
  {entryRayHit(bvhMeshes[i], matrixWorld, ray) : i \in 1..Len(bvhMeshes)}
    \ {Null}
\* The meshes of the registry, in its order.
RegistryMeshes == [i \in 1..Len(bvhMeshes) |-> bvhMeshes[i].mesh]
Closest(h, hits) == h \in hits /\ \A g \in hits : h.distance <= g.distance

\* C1 as claimed: raycast scans every entry and returns a closest one of the
\* per-mesh hits, or null if no mesh has a hit within maxDistance (at a
\* distance of maxDistance or less).
C1_WithinMaxDistance ==
  last.op = "raycast" =>
    /\ last.scanned = RegistryMeshes
    /\ IF \E h \in RayHits(last.ray) : h.distance <= last.maxDistance
       THEN Closest(last.result, RayHits(last.ray))
       ELSE last.result = Null

\* C1, amended: raycast scans every entry and returns a closest one of the
\* per-mesh hits, or null if no mesh has a hit at a distance strictly less
\* than maxDistance.
C1_ClosestHitBelowMaxDistance ==
  last.op = "raycast" =>
    /\ last.scanned = RegistryMeshes
    /\ IF \E h \in RayHits(last.ray) : h.distance < last.maxDistance
       THEN Closest(last.result, RayHits(last.ray))
       ELSE last.result = Null

\* A raycast that found hits on several meshes and returned one that is
\* closer than another and is not the first entry's.
C1_Witness ==
  /\ last.op = "raycast"
  /\ last.result # Null
  /\ last.result.object # bvhMeshes[1].mesh
  /\ \E h \in RayHits(last.ray) : h.distance > last.result.distance

\* C2 as claimed: buildBVH on a registered mesh returns the cached entry, the
\* one the call that registered the mesh returned, constructs no MeshBVH and
\* leaves the registry as it was.
C2_ReturnsFirstCallsEntry ==
  (last.op = "buildBVH" /\ last.hadEntry) =>
    /\ last.result = get(last.regBefore, last.mesh)
    /\ last.result.returned
    /\ ~last.constructed
    /\ bvhMeshes = last.regBefore

QueryHitIsRegistered ==
  (last.op \in QueryOps /\ last.hit # Null) => has(bvhMeshes, last.hit.object)

RemovedStaysOut ==
  /\ last'.op = "removeBVH" => ~has(bvhMeshes', last'.mesh)
  /\ \A m \in Meshes :
       (~has(bvhMeshes, m) /\ has(bvhMeshes', m)) =>
         /\ last'.op = "buildBVH" /\ last'.mesh = m
         /\ last'.constructed
         /\ get(bvhMeshes', m).invMatrixWorld \in
              {IdentityMatrix, invert(matrixWorld'[m])}
  /\ (last'.op = "buildBVH" /\ ~last'.hadEntry /\ last'.result # Null) =>
       last'.constructed

\* C3: a query's hit is on a mesh of the registry, removeBVH takes the mesh
\* out of it, and a mesh comes back only by a buildBVH for it that builds a
\* new entry (a new MeshBVH, the inverse of the mesh's matrix as it is now).
C3_RemovedMeshIsIgnored == []QueryHitIsRegistered /\ [][RemovedStaysOut]_vars

\* removeBVH has removed a mesh that a ray would otherwise hit first.
C3_Witness ==
  /\ last.op = "removeBVH"
  /\ has(last.regBefore, last.mesh)
  /\ \E ray \in Rays :
       LET before == raycast(last.regBefore, matrixWorld, ray, Infinity)
           after == raycast(bvhMeshes, matrixWorld, ray, Infinity)
       IN before # Null /\ before.object = last.mesh /\ after # Null

OneEntryPerMesh ==
  \A i, j \in 1..Len(bvhMeshes) :
    bvhMeshes[i].mesh = bvhMeshes[j].mesh => i = j

OnlyBuildAddsOnlyRemoveRemoves ==
  \A m \in Meshes :
    /\ (~has(bvhMeshes, m) /\ has(bvhMeshes', m)) =>
         (last'.op = "buildBVH" /\ last'.mesh = m)
    /\ (has(bvhMeshes, m) /\ ~has(bvhMeshes', m)) =>
         \/ last'.op = "removeBVH" /\ last'.mesh = m
         \/ last'.op = "clear"

\* C4: the registry holds at most one entry per mesh; an entry appears only
\* in a buildBVH for its mesh and disappears only in a removeBVH for its mesh
\* or in clear.
C4_RegistryInvariant ==
  []OneEntryPerMesh /\ [][OnlyBuildAddsOnlyRemoveRemoves]_vars

\* buildBVH was called for a mesh that has an entry, among several entries.
C4_Witness ==
  /\ last.op = "buildBVH"
  /\ last.hadEntry
  /\ Len(bvhMeshes) >= 2

\* The hits of the ground ray that getGroundHeight's raycast accepts.
GroundHits(x, maxDistance) ==
  {h \in RayHits(groundRay(x, maxDistance)) : h.distance < maxDistance * 2}

\* C5: getGroundHeight(x, z, maxDistance) returns the world y of a nearest hit
\* of the downward ray from the point at height maxDistance above (x, z),
\* among the hits on all registered meshes closer than 2 * maxDistance, or
\* null if there is none.
C5_GroundHeightIsNearestHitY ==
  last.op = "getGroundHeight" =>
    LET hits == GroundHits(last.x, last.maxDistance)
    IN IF hits = {} THEN last.result = Null
       ELSE \E h \in hits : Closest(h, hits) /\ last.result = Num(h.point.y)

\* A ground height taken where two meshes lie at different heights.
C5_Witness ==
  /\ last.op = "getGroundHeight"
  /\ last.result # Null
  /\ \E h \in GroundHits(last.x, last.maxDistance) :
       h.point.y # last.result.value

\* C6: buildBVH returns, whatever happens: null with nothing built and the
\* registry untouched for a mesh without geometry, null when the MeshBVH
\* constructor throws.
C6_BuildNeverThrows ==
  last.op = "buildBVH" =>
    /\ last.outcome = "returned"
    /\ ~HasGeometry(last.mesh) =>
         (last.result = Null /\ ~last.constructed /\ bvhMeshes = last.regBefore)
    /\ ConstructorThrows(last.mesh) => last.result = Null

\* buildBVH was called, with entries in the registry, for a mesh whose
\* MeshBVH cannot be constructed.
C6_Witness ==
  /\ last.op = "buildBVH"
  /\ ConstructorThrows(last.mesh)
  /\ bvhMeshes # <<>>

\* The hits the loop of sphereCast finds, entry by entry.
SphereHits(sphere, direction, maxDistance) ==
  {entrySphereHit(bvhMeshes[i], matrixWorld, sphere, direction, maxDistance) :
     i \in 1..Len(bvhMeshes)} \ {Null}

\* C7: a query that hits nothing returns null (raycast, sphereCast,
\* getGroundHeight), also on an empty registry, and isOnGround returns false
\* whenever getGroundHeight returns null.
C7_MissIsNull ==
  /\ (last.op = "raycast" /\ RayHits(last.ray) = {}) => last.result = Null
  /\ (last.op = "sphereCast"
        /\ SphereHits(last.sphere, last.direction, last.maxDistance) = {})
       => last.result = Null
  /\ (last.op = "getGroundHeight"
        /\ RayHits(groundRay(last.x, last.maxDistance)) = {})
       => last.result = Null
  /\ (last.op = "isOnGround"
        /\ getGroundHeight(bvhMeshes, matrixWorld, last.position.x,
                           last.maxDistance) = Null)
       => last.result = FALSE

\* isOnGround was asked where registered meshes give no ground height.
C7_Witness ==
  /\ last.op = "isOnGround"
  /\ last.groundHeight = Null
  /\ bvhMeshes # <<>>
  /\ last.result = FALSE

\* Every entry's cached inverse is the inverse of its mesh's world matrix.
InversesCurrent ==
  \A i \in 1..Len(bvhMeshes) :
    bvhMeshes[i].invMatrixWorld = invert(matrixWorld[bvhMeshes[i].mesh])

\* C8: while the hook is mounted with enabled = true exactly one interval of
\* 100 ms calls updateMatrices, and right after each of its calls every
\* entry's invMatrixWorld is the inverse of its mesh's current matrixWorld.
C8_TimerRefreshesEveryInverse ==
  /\ \A h \in Hooks :
       (hooks[h].mounted /\ hooks[h].enabled)
         => hooks[h].intervals = <<UpdateIntervalMs>>
  /\ last.op = "updateMatrices" => InversesCurrent

\* C9: at every raycast and sphereCast made while the timer runs, the cached
\* inverse of every entry whose inverse was computed is the inverse of the
\* matrixWorld that brings the hit back to world space.
C9_CachedInverseMatchesWorldMatrix ==
  (last.op \in {"raycast", "sphereCast"} /\ hooks["map"].intervals # <<>>)
    => \A i \in 1..Len(bvhMeshes) :
         bvhMeshes[i].invComputed
           => bvhMeshes[i].invMatrixWorld
                = invert(matrixWorld[bvhMeshes[i].mesh])

\* C10: no query observes an entry whose inverse was never computed from its
\* mesh's world matrix, and a query scans the registry as it stood when the
\* query began.
C10_QueriesSeeComputedEntries ==
  last.op \in {"raycast", "sphereCast", "getGroundHeight"} =>
    /\ \A i \in 1..Len(bvhMeshes) : bvhMeshes[i].invComputed
    /\ last.scanned = RegistryMeshes

\* The meshes of a list.
Listed(meshes) == {meshes[i] : i \in 1..Len(meshes)}

\* C11: once the effect for a new list has run, no mesh this hook registered
\* and that is missing from the list is left in the registry (nor in the
\* hook's registered set).
C11_DroppedMeshesAreRemoved ==
  (last.op = "effect" /\ hooks[last.hook].enabled) =>
    \A m \in hooks[last.hook].registered :
      has(bvhMeshes, m) => m \in Listed(hooks[last.hook].meshes)

\* The heights, in world space, of the surfaces the registered meshes have in
\* column x.
SurfaceHeights(x) ==
  UNION {{f.y + matrixWorld[bvhMeshes[i].mesh] :
            f \in {g \in bvhMeshes[i].bvh : g.x = x}} :
         i \in 1..Len(bvhMeshes)}

\* C12: where the registered meshes have one surface in the position's column
\* and every cached inverse is current, isOnGround is true exactly when that
\* surface's height h has |position.y - h| < threshold, whatever position.y.
C12_OnGroundIffWithinThreshold ==
  (/\ last.op = "isOnGround"
   /\ InversesCurrent
   /\ Cardinality(SurfaceHeights(last.position.x)) = 1) =>
    (last.result <=>
       \E h \in SurfaceHeights(last.position.x) :
         10 * Abs(last.position.y - h) < last.threshold)

\* The hits of a sphere swept along `direction`: the loop body of sphereCast
\* with the direction carried to mesh-local space as a direction (a
\* translation leaves it alone).
SweptHits(sphere, direction, maxDistance) ==
  {entrySphereHitAlong(bvhMeshes[i], matrixWorld, sphere,
                       multiplyScalar(normalize(direction), maxDistance)) :
     i \in 1..Len(bvhMeshes)} \ {Null}

\* C13: sphereCast scans every entry and returns a closest hit of the sphere
\* swept along the given direction among those closer than maxDistance, or
\* null if there is none.
C13_SphereCastClosestHit ==
  last.op = "sphereCast" =>
    LET hits == SweptHits(last.sphere, last.direction, last.maxDistance)
    IN /\ last.scanned = RegistryMeshes
       /\ IF \E h \in hits : h.distance < last.maxDistance
          THEN Closest(last.result, hits)
          ELSE last.result = Null

EmptyRegistryAnswersNull ==
  /\ (bvhMeshes = <<>> /\ last.op \in {"raycast", "sphereCast", "getGroundHeight"})
       => last.result = Null
  /\ bvhMeshes = <<>> =>
       \A ray \in Rays : raycast(bvhMeshes, matrixWorld, ray, Infinity) = Null

ClearEmptiesUntilBuild ==
  /\ last'.op = "clear" =>
       (bvhMeshes' = <<>> /\ getAllBVHMeshes(bvhMeshes') = <<>>)
  /\ (bvhMeshes = <<>> /\ bvhMeshes' # <<>>) => last'.op = "buildBVH"

\* C14: clear leaves the registry empty (getAllBVHMeshes returns an empty
\* list), an empty registry answers every raycast, sphereCast and
\* getGroundHeight with null, and it stays empty until a buildBVH.
C14_ClearEmptiesRegistry ==
  []EmptyRegistryAnswersNull /\ [][ClearEmptiesUntilBuild]_vars

\* clear has emptied a registry of several meshes that a ray was hitting.
C14_Witness ==
  /\ last.op = "clear"
  /\ Len(last.regBefore) >= 2
  /\ bvhMeshes = <<>>
  /\ \E ray \in Rays :
       /\ raycast(last.regBefore, matrixWorld, ray, Infinity) # Null
       /\ raycast(bvhMeshes, matrixWorld, ray, Infinity) = Null

\* C15: when buildBVH returns null the registry is as it was before the
\* call.
C15_NullLeavesRegistryUntouched ==
  (last.op = "buildBVH" /\ last.result = Null) => bvhMeshes = last.regBefore

\* C16: after the cleanup of a hook's unmount, no mesh that instance
\* registered is left in the registry.
C16_UnmountRemovesRegistered ==
  last.op = "cleanup" =>
    \A m \in hooks[last.hook].registered : ~has(bvhMeshes, m)

\* C17: every mesh in a mounted hook's registered set has an entry in the
\* registry, whatever another hook instance or a caller of clear or
\* removeBVH does.
C17_RegisteredMeshesHaveEntries ==
  \A h \in Hooks :
    hooks[h].mounted => \A m \in hooks[h].registered : has(bvhMeshes, m)

\* C18: a hook instance has at most one interval that is set and not cleared,
\* none while it is disabled or unmounted, and an effect that runs with
\* enabled = false calls buildBVH for no mesh.
C18_OneIntervalNoBuildWhenDisabled ==
  /\ \A h \in Hooks :
       /\ Len(hooks[h].intervals) <= 1
       /\ (~hooks[h].mounted \/ ~hooks[h].enabled) => hooks[h].intervals = <<>>
  /\ (last.op = "effect" /\ ~hooks[last.hook].enabled) => last.calls = <<>>

\* A hook that had registered a mesh was rendered with enabled = false and a
\* list holding a mesh it has not registered.
C18_Witness ==
  /\ last.op = "effect"
  /\ hooks[last.hook].mounted
  /\ ~hooks[last.hook].enabled
  /\ hooks[last.hook].registered # {}
  /\ \E m \in Listed(hooks[last.hook].meshes) :
       m \in Meshes /\ m \notin hooks[last.hook].registered
  /\ hooks[last.hook].intervals = <<>>

ListFollowsPhysicsReady ==
  /\ (map.mounted /\ ~map.physicsReady) => map.staticMeshes = <<>>
  /\ map.physicsReady => "terrain" \in Listed(map.staticMeshes)
  /\ hooks["map"].mounted => hooks["map"].enabled

TerrainRegistered ==
  "terrain" \in hooks["map"].registered /\ has(bvhMeshes, "terrain")

\* C19: in Map20 and Map21 the list given to useBVHRegistration is empty
\* while physicsReady is false; once it is true the terrain mesh is in the
\* list, and it is eventually registered by the hook unless the map unmounts.
C19_TerrainEventuallyRegistered ==
  /\ []ListFollowsPhysicsReady
  /\ map.physicsReady ~> (TerrainRegistered \/ ~map.mounted)

\* The map is mounted, physicsReady is true and the hook has registered the
\* terrain mesh of the list.
C19_Witness ==
  /\ map.mounted /\ map.physicsReady /\ ~map.effectsPending
  /\ hooks["map"].meshes = <<"terrain">>
  /\ TerrainRegistered

\* C20: once physicsReady is true in Map20, the terrain mesh and every city
\* building mesh are in the list given to useBVHRegistration.
C20_AllStaticMeshesListed ==
  (map.mounted /\ map.kind = "Map20" /\ map.physicsReady) =>
    ({"terrain"} \cup CityBuildings(map.kind)) \subseteq Listed(map.staticMeshes)

====
